---- MODULE Spec2Model ----
(***************************************************************************)
(* Marketplace checkout core of app.py: the listings / purchases /         *)
(* purchase_items tables (InnoDB), the session cart, and the request       *)
(* handlers that touch them.  Every session runs one request at a time;    *)
(* requests of different sessions interleave statement by statement.       *)
(*                                                                         *)
(* Storage semantics.  Each request has its own connection (get_db), with  *)
(* autocommit off.  A plain SELECT is a non-locking read of committed      *)
(* rows.  SELECT ... FOR UPDATE, UPDATE and DELETE take the exclusive row  *)
(* lock and wait while another transaction holds it; they read the latest  *)
(* committed row.  A transaction's writes are invisible to others until    *)
(* commit, so they are kept in the request's locals (req) and applied to   *)
(* the tables by the commit step.  AUTO_INCREMENT values are handed out at *)
(* INSERT and are not given back by a rollback.                            *)
(*                                                                         *)
(* Columns that no handler branches on (make, model, year, mileage,        *)
(* currency, created_at, payment_ref, and the text columns title /         *)
(* location / description, which the handlers write exactly where they     *)
(* write price_cents) are left out of the rows.                            *)
(***************************************************************************)
EXTENDS Integers, Sequences, FiniteSets, TLC

\* ---------------------------------------------------------------- bounds
NumBuyers == 2
NumSellers == 1
NumUsers == 2
MaxListings == 2
MaxPurchases == 2
MaxPrice == 2
MaxClock == 1

\* browser sessions: the first NumBuyers shop, the others manage listings
Buyers == 1..NumBuyers
Sellers == (NumBuyers + 1)..(NumBuyers + NumSellers)
Sessions == Buyers \cup Sellers
Users == 1..NumUsers
ListingIds == 1..MaxListings
Prices == 1..MaxPrice
CardNumbers == {"4242424242424242", "4000000000000002"}

NoRow == [user_id |-> 0, price_cents |-> 0, status |-> "NONE", updated_at |-> 0]
NoReq ==
    [ids |-> <<>>, by_id |-> <<>>, total_cents |-> 0, now |-> 0,
     purchase_id |-> 0, items |-> <<>>, sold |-> {},
     listing_id |-> 0, user_id |-> 0, price_cents |-> 0]

VARIABLES
    listings,        \* table listings: id -> row, NoRow where no row exists
    purchases,       \* table purchases: set of rows
    purchase_items,  \* table purchase_items: rows in insertion (id) order
    auto_listing,    \* next AUTO_INCREMENT value of listings.id
    auto_purchase,   \* next AUTO_INCREMENT value of purchases.id
    lock,            \* exclusive row lock on listings: id -> holding session, 0 if free
    session_user,    \* session["user_id"], 0 when absent
    cart,            \* session["cart"]
    pc,              \* position of the session's request in its handler
    req,             \* locals of the request in flight
    result,          \* response the handler returned
    now,             \* wall clock, in seconds
    hist,            \* history: the tables and carts the run started from, and
                     \* the pairs of sessions whose pay executions overlapped in time
    unleash_url,     \* the process environment: UNLEASH_URL is set and not empty
    unleash,         \* feature_flags._unleash: "None" or "Client"
    app,             \* the process: "importing" app.py, "serving", or "crashed"
    flag_call,       \* the last call of flag(): its default, the outcomes of the
                     \* is_enabled attempts it could make, and what it returned
    db_inited,       \* the global _db_inited
    init_count       \* history: how many runs of init_db have completed

vars ==
    <<listings, purchases, purchase_items, auto_listing, auto_purchase, lock,
      session_user, cart, pc, req, result, now, hist,
      unleash_url, unleash, app, flag_call, db_inited, init_count>>

initvars == <<db_inited, init_count>>

flagvars == <<unleash_url, unleash, app, flag_call>>

shopvars ==
    <<listings, purchases, purchase_items, auto_listing, auto_purchase, lock,
      session_user, cart, pc, req, result, now, hist>>

db == <<listings, purchases, purchase_items>>

\* ---------------------------------------------------------------- helpers
Range(seq) == {seq[k] : k \in 1..Len(seq)}

Min(S) == CHOOSE x \in S : \A y \in S : x <= y

\* (mutant) the total takes the first item only
SumPrices_First(ids, by) == by[Head(ids)].price_cents

RECURSIVE SumPrices(_, _)
SumPrices(ids, by) ==
    IF ids = <<>> THEN 0
    ELSE by[Head(ids)].price_cents + SumPrices(Tail(ids), by)

cart_ids(s) == cart[s]

\* (mutant) the membership test is missing
cart_add_Always(ids, listing_id) == Append(ids, listing_id)

cart_add(ids, listing_id) ==
    IF listing_id \in Range(ids) THEN ids ELSE Append(ids, listing_id)

cart_clear == <<>>

\* the ids of ids that have a row, in the order of ids (rows stand for themselves)
load_cart_items(ids) == SelectSeq(ids, LAMBDA i : listings[i] # NoRow)

\* dummy_charge returns a reference iff the flag is on, the number is the test
\* number and the other card details are present; otherwise it raises ValueError
dummy_charge_ok(dummy_enabled, card_number, details) ==
    dummy_enabled /\ card_number = "4242424242424242" /\ details

\* (mutant) the rows are read without FOR UPDATE: nobody waits
RowFree_NoWait(i, s) == TRUE

\* the row-lock wait of FOR UPDATE / UPDATE / DELETE: proceed when no other
\* transaction holds the row
RowFree(i, s) == lock[i] = 0 \/ lock[i] = s

\* (mutant) the validation misses the status test
Unavailable_ExistenceOnly(ids, by) == \E k \in 1..Len(ids) : ids[k] \notin DOMAIN by

\* pay's validation of the locked snapshot
Unavailable(ids, by) ==
    \E k \in 1..Len(ids) : ids[k] \notin DOMAIN by \/ by[ids[k]].status # "ACTIVE"

\* (mutant) purchase_items has no foreign key to listings
Referenced_Never(i) == FALSE

\* fk_pi_listing (lines 148-149): some purchase_items row references listing i
Referenced(i) == \E k \in 1..Len(purchase_items) : purchase_items[k].listing_id = i

\* (mutant) the transaction is left open: its locks stay
Released_None(s) == lock

\* locks of s dropped by commit, rollback or the connection's close
Released(s) == [i \in ListingIds |-> IF lock[i] = s THEN 0 ELSE lock[i]]

\* the handler returns response r; its locals are gone
Finish(s, r) ==
    /\ pc' = [pc EXCEPT ![s] = "done"]
    /\ result' = [result EXCEPT ![s] = r]
    /\ req' = [req EXCEPT ![s] = NoReq]

\* ---------------------------------------------------------------- feature flags
\* what one client.is_enabled call does: it returns a value, or raises TypeError
\* (the keyword is not in this client version's signature), or raises another
\* exception
Outcomes == {"True", "False", "TypeError", "Error"}

NoCall == [default |-> FALSE, tries |-> <<"True", "True", "True">>, ret |-> "none"]

\* bool(x), as the value flag() hands back
BoolStr(b) == IF b THEN "True" ELSE "False"

\* feature_flags.py lines 36-66: the client after the call, and whether the call
\* raised.  An exception of initialize_client is swallowed (lines 61-64), so the
\* outcome does not depend on initialize_raises.
init_unleash(client, url_set, initialize_raises) ==
    IF client # "None" THEN [unleash |-> client, raised |-> FALSE]
    ELSE IF ~url_set THEN [unleash |-> "None", raised |-> TRUE]
    ELSE [unleash |-> "Client", raised |-> FALSE]

\* feature_flags.py lines 93-111: "True" / "False" for a returned bool, "Raise"
\* for an exception that leaves flag().  An exception raised inside the handler
\* "except TypeError:" of line 102 is not seen by the "except Exception:" of
\* line 110, which belongs to the same try statement.
flag(init_raised, default, tries) ==
    IF init_raised THEN BoolStr(default)
    ELSE IF tries[1] \in {"True", "False"} THEN tries[1]
    ELSE IF tries[1] = "Error" THEN BoolStr(default)
    ELSE IF tries[2] \in {"True", "False"} THEN tries[2]
    ELSE IF tries[2] = "Error" THEN "Raise"
    ELSE IF tries[3] \in {"True", "False"} THEN tries[3]
    ELSE BoolStr(default)

\* app.py line 21: the import of app.py calls init_unleash(); an exception there
\* ends the import, and with it the process
Startup ==
    /\ app = "importing"
    /\ \E initialize_raises \in BOOLEAN :
        LET r == init_unleash(unleash, unleash_url, initialize_raises) IN
        /\ unleash' = r.unleash
        /\ app' = IF r.raised THEN "crashed" ELSE "serving"
    /\ UNCHANGED <<unleash_url, flag_call, shopvars, initvars>>

\* a request (or a template's context processor, lines 179-185) calls flag()
FlagCall ==
    /\ app = "serving"
    /\ \E default, initialize_raises \in BOOLEAN, tries \in [1..3 -> Outcomes] :
        LET r == init_unleash(unleash, unleash_url, initialize_raises) IN
        /\ unleash' = r.unleash
        /\ flag_call' = [default |-> default, tries |-> tries,
                         ret |-> flag(r.raised, default, tries)]
    /\ UNCHANGED <<unleash_url, app, shopvars, initvars>>

\* the process has started with a configured client; no flag() call is on record
Serving ==
    /\ unleash_url = TRUE
    /\ unleash = "Client"
    /\ app = "serving"
    /\ flag_call = NoCall

\* ---------------------------------------------------------------- store initialization
\* app.py lines 167-171: before_request reads the global; a request that finds it
\* false goes on to run init_db, the others go to their route handler
ensure_db(s) ==
    /\ pc[s] = "idle"
    /\ pc' = [pc EXCEPT ![s] = IF db_inited THEN "handler" ELSE "init_db"]
    /\ UNCHANGED <<initvars, flagvars, hist, db, auto_listing, auto_purchase, lock,
                   session_user, cart, req, result, now>>

\* app.py lines 172-173 (init_db is lines 89-161): init_db raises, which ends the
\* request with the global as it was, or it completes and the global is set
init_db(s) ==
    /\ pc[s] = "init_db"
    /\ \E raises \in BOOLEAN :
        IF raises
        THEN Finish(s, "Error") /\ UNCHANGED initvars
        ELSE /\ init_count' = init_count + 1
             /\ db_inited' = TRUE
             /\ pc' = [pc EXCEPT ![s] = "handler"]
             /\ UNCHANGED <<req, result>>
    /\ UNCHANGED <<flagvars, hist, db, auto_listing, auto_purchase, lock, session_user,
                   cart, now>>

\* the body of the route the request asked for
route_handler(s) ==
    /\ pc[s] = "handler"
    /\ Finish(s, "Handled")
    /\ UNCHANGED <<initvars, flagvars, hist, db, auto_listing, auto_purchase, lock,
                   session_user, cart, now>>

\* the first request of the process has been served
Inited ==
    /\ db_inited = TRUE
    /\ init_count = 1

\* ---------------------------------------------------------------- initial state
\* init_db has run: the tables exist and are empty.  The users are registered and
\* the seller sessions are logged in (as user 1); the buyer sessions are anonymous,
\* which add_to_cart and pay allow.
Init ==
    /\ listings = [i \in ListingIds |-> NoRow]
    /\ purchases = {}
    /\ purchase_items = <<>>
    /\ auto_listing = 1
    /\ auto_purchase = 1
    /\ lock = [i \in ListingIds |-> 0]
    /\ session_user = [s \in Sessions |-> IF s \in Sellers THEN 1 ELSE 0]
    /\ cart = [s \in Sessions |-> <<>>]
    /\ pc = [s \in Sessions |-> "idle"]
    /\ req = [s \in Sessions |-> NoReq]
    /\ result = [s \in Sessions |-> "none"]
    /\ now = 0
    /\ hist = [listings |-> listings, cart |-> cart, met |-> {}]
    /\ Serving
    /\ Inited

\* ---------------------------------------------------------------- pay
PayTryPcs ==
    {"pay_lock", "pay_charge", "pay_insert_purchase", "pay_insert_items",
     "pay_update", "pay_commit"}

\* ids of the cart that have a row and are not yet locked by this FOR UPDATE scan
PayPending(s) ==
    {i \in Range(req[s].ids) : listings[i] # NoRow /\ i \notin DOMAIN req[s].by_id}

\* (mutant) the guard tests the cart flag only
checkout_surface_CartOnly(cart_enabled, checkout_enabled) == cart_enabled

\* lines 655 and 673: the checkout surface exists when both flags resolve to true
checkout_surface(cart_enabled, checkout_enabled) == cart_enabled /\ checkout_enabled

\* lines 673-685 for the given flag values: flags, cart_ids, load_cart_items, the
\* empty check
PayBeginWith(s, cart_enabled, checkout_enabled) ==
    /\ pc[s] = "idle"
    /\ IF ~checkout_surface(cart_enabled, checkout_enabled)
       THEN Finish(s, "NotFound")
       ELSE IF load_cart_items(cart_ids(s)) = <<>>
       THEN Finish(s, "CartEmpty")
       ELSE /\ pc' = [pc EXCEPT ![s] = "pay_lock"]
            /\ req' = [req EXCEPT ![s] = [NoReq EXCEPT !.ids = cart_ids(s)]]
            /\ UNCHANGED result
    /\ hist' = [hist EXCEPT !.met = @ \cup
                  IF pc'[s] = "pay_lock"
                  THEN {{s, u} : u \in {v \in Sessions : pc[v] \in PayTryPcs}}
                  ELSE {}]
    /\ UNCHANGED <<initvars, flagvars, db, auto_listing, auto_purchase, lock, session_user, cart, now>>

\* lines 671-685: the flags resolve to some pair of values
PayBegin(s) ==
    \E cart_enabled, checkout_enabled \in BOOLEAN :
        PayBeginWith(s, cart_enabled, checkout_enabled)

\* (mutant) the rows are locked one by one in the order of the cart
NextLocked_CartOrder(s) ==
    LET pending == SelectSeq(req[s].ids, LAMBDA i : i \in PayPending(s)) IN Head(pending)

\* the row the FOR UPDATE statement locks next: it scans the primary key upwards
NextLocked(s) == Min(PayPending(s))

\* lines 689-697: SELECT ... WHERE id IN (...) FOR UPDATE locks the matching rows
\* one after the other in primary-key order and waits at a row held by another
\* transaction
PayLock(s) ==
    /\ pc[s] = "pay_lock"
    /\ PayPending(s) # {}
    /\ LET i == NextLocked(s) IN
        /\ RowFree(i, s)
        /\ lock' = [lock EXCEPT ![i] = s]
        /\ req' = [req EXCEPT ![s].by_id =
                     (i :> [status |-> listings[i].status,
                            price_cents |-> listings[i].price_cents]) @@ @]
    /\ UNCHANGED <<initvars, flagvars, hist, db, auto_listing, auto_purchase, session_user, cart, pc, result, now>>

\* lines 699-702
PayValidate(s) ==
    /\ pc[s] = "pay_lock"
    /\ PayPending(s) = {}
    /\ IF Unavailable(req[s].ids, req[s].by_id)
       THEN /\ lock' = Released(s)
            /\ Finish(s, "ItemUnavailable")
       ELSE /\ pc' = [pc EXCEPT ![s] = "pay_charge"]
            /\ UNCHANGED <<lock, result, req>>
    /\ UNCHANGED <<initvars, flagvars, hist, db, auto_listing, auto_purchase, session_user, cart, now>>

\* lines 704-706 and, for a ValueError of dummy_charge, lines 728-734
PayCharge(s) ==
    /\ pc[s] = "pay_charge"
    /\ \E dummy_enabled, details \in BOOLEAN, card_number \in CardNumbers :
        IF dummy_charge_ok(dummy_enabled, card_number, details)
        THEN /\ req' = [req EXCEPT ![s].total_cents = SumPrices(req[s].ids, req[s].by_id),
                                   ![s].now = now]
             /\ pc' = [pc EXCEPT ![s] = "pay_insert_purchase"]
             /\ UNCHANGED <<lock, result>>
        ELSE /\ lock' = Released(s)
            
             /\ Finish(s, "PaymentDeclined")
    /\ UNCHANGED <<initvars, flagvars, hist, db, auto_listing, auto_purchase, session_user, cart, now>>

\* lines 708-711
PayInsertPurchase(s) ==
    /\ pc[s] = "pay_insert_purchase"
    /\ auto_purchase <= MaxPurchases
    /\ req' = [req EXCEPT ![s].purchase_id = auto_purchase]
    /\ auto_purchase' = auto_purchase + 1
    /\ pc' = [pc EXCEPT ![s] = "pay_insert_items"]
    /\ UNCHANGED <<initvars, flagvars, hist, db, auto_listing, lock, session_user, cart, result, now>>

\* lines 713-717: one row per element of ids
PayItemRows(ids, by, purchase_id) ==
    [k \in 1..Len(ids) |->
        [purchase_id |-> purchase_id, listing_id |-> ids[k],
         price_cents |-> by[ids[k]].price_cents]]

PayInsertItems(s) ==
    /\ pc[s] = "pay_insert_items"
    /\ req' = [req EXCEPT ![s].items =
                 PayItemRows(req[s].ids, req[s].by_id, req[s].purchase_id)]
    /\ pc' = [pc EXCEPT ![s] = "pay_update"]
    /\ UNCHANGED <<initvars, flagvars, hist, db, auto_listing, auto_purchase, lock, session_user, cart, result, now>>

\* lines 719-722
PayUpdate(s) ==
    /\ pc[s] = "pay_update"
    /\ req' = [req EXCEPT ![s].sold = Range(req[s].ids)]
    /\ pc' = [pc EXCEPT ![s] = "pay_commit"]
    /\ UNCHANGED <<initvars, flagvars, hist, db, auto_listing, auto_purchase, lock, session_user, cart, result, now>>

\* (mutant) the UPDATE names the first id only
SoldRows_FirstOnly(table, sold, at) ==
    [i \in ListingIds |->
        IF sold # {} /\ i = Min(sold) /\ table[i] # NoRow
        THEN [table[i] EXCEPT !.status = "SOLD", !.updated_at = at]
        ELSE table[i]]

\* lines 719-722 as the commit makes them visible: the rows of table whose id is in
\* sold get status SOLD and updated_at at
SoldRows(table, sold, at) ==
    [i \in ListingIds |->
        IF i \in sold /\ table[i] # NoRow
        THEN [table[i] EXCEPT !.status = "SOLD", !.updated_at = at]
        ELSE table[i]]

\* lines 724-726
PayCommit(s) ==
    /\ pc[s] = "pay_commit"
    /\ listings' = SoldRows(listings, req[s].sold, req[s].now)
    /\ purchases' = purchases \cup
           {[id |-> req[s].purchase_id, total_amount_cents |-> req[s].total_cents]}
    /\ purchase_items' = purchase_items \o req[s].items
    /\ lock' = Released(s)
    /\ cart' = [cart EXCEPT ![s] = cart_clear]
    /\ Finish(s, "Success")
    /\ UNCHANGED <<initvars, flagvars, hist, auto_listing, auto_purchase, session_user, now>>

\* lines 728-734: any statement of the try block raises (lock wait timeout, lost
\* connection, start_transaction refusing, a failed commit): rollback and redirect
PayException(s) ==
    /\ pc[s] \in PayTryPcs
    /\ lock' = Released(s)
    /\ Finish(s, "Error")
    /\ UNCHANGED <<initvars, flagvars, hist, db, auto_listing, auto_purchase, session_user, cart, now>>

\* teardown_appcontext: the connection is closed (an open transaction is rolled back,
\* its locks are dropped) and the request's locals are gone
close_db(s) ==
    /\ pc[s] = "done"
    /\ pc' = [pc EXCEPT ![s] = "idle"]
    /\ req' = [req EXCEPT ![s] = NoReq]
    /\ result' = [result EXCEPT ![s] = "none"]
    /\ lock' = Released(s)
    /\ UNCHANGED <<initvars, flagvars, hist, db, auto_listing, auto_purchase, session_user, cart, now>>

Pay(s) ==
    \/ PayBegin(s)
    \/ PayLock(s)
    \/ PayValidate(s)
    \/ PayCharge(s)
    \/ PayInsertPurchase(s)
    \/ PayInsertItems(s)
    \/ PayUpdate(s)
    \/ PayCommit(s)
    \/ PayException(s)

\* ---------------------------------------------------------------- session
\* lines 373-387: a failed login redirects; a successful one clears the session
\* (cart included) and stores the user id
login_post(s) ==
    /\ pc[s] = "idle"
    /\ \E u \in Users, password_ok \in BOOLEAN :
        IF ~password_ok
        THEN Finish(s, "InvalidLogin") /\ UNCHANGED <<session_user, cart>>
        ELSE /\ session_user' = [session_user EXCEPT ![s] = u]
             /\ cart' = [cart EXCEPT ![s] = <<>>]
             /\ Finish(s, "LoggedIn")
    /\ UNCHANGED <<initvars, flagvars, hist, db, auto_listing, auto_purchase, lock, now>>

\* lines 390-395, behind login_required (lines 191-199)
logout(s) ==
    /\ pc[s] = "idle"
    /\ IF session_user[s] = 0
       THEN Finish(s, "LoginRequired") /\ UNCHANGED <<session_user, cart>>
       ELSE /\ session_user' = [session_user EXCEPT ![s] = 0]
            /\ cart' = [cart EXCEPT ![s] = <<>>]
            /\ Finish(s, "LoggedOut")
    /\ UNCHANGED <<initvars, flagvars, hist, db, auto_listing, auto_purchase, lock, now>>

\* (mutant) the status test of line 628 is missing
AddToCartWith_NoStatusTest(s, listing_id, cart_enabled) ==
    /\ pc[s] = "idle"
    /\ IF ~cart_enabled \/ listings[listing_id] = NoRow
       THEN Finish(s, "NotFound") /\ UNCHANGED cart
       ELSE /\ cart' = [cart EXCEPT ![s] = cart_add(cart_ids(s), listing_id)]
            /\ Finish(s, "Added")
    /\ UNCHANGED <<initvars, flagvars, hist, db, auto_listing, auto_purchase, lock,
                   session_user, now>>

\* lines 620-634 for the given listing id and flag value
AddToCartWith(s, listing_id, cart_enabled) ==
    /\ pc[s] = "idle"
    /\ IF ~cart_enabled \/ listings[listing_id] = NoRow
       THEN Finish(s, "NotFound") /\ UNCHANGED cart
       ELSE IF listings[listing_id].status # "ACTIVE"
       THEN Finish(s, "AlreadySold") /\ UNCHANGED cart
       ELSE /\ cart' = [cart EXCEPT ![s] = cart_add(cart_ids(s), listing_id)]
            /\ Finish(s, "Added")
    /\ UNCHANGED <<initvars, flagvars, hist, db, auto_listing, auto_purchase, lock, session_user, now>>

add_to_cart(s) ==
    \E listing_id \in ListingIds, cart_enabled \in BOOLEAN :
        AddToCartWith(s, listing_id, cart_enabled)

\* lines 637-650: the page shows the cart; nothing is written
view_cart(s) ==
    /\ pc[s] = "idle"
    /\ \E cart_enabled \in BOOLEAN :
        IF ~cart_enabled THEN Finish(s, "NotFound") ELSE Finish(s, "CartPage")
    /\ UNCHANGED <<initvars, flagvars, hist, db, auto_listing, auto_purchase, lock, session_user, cart, now>>

\* lines 653-668 for the given flag values: plain SELECTs only
CheckoutWith(s, cart_enabled, checkout_enabled) ==
    /\ pc[s] = "idle"
    /\ LET items == load_cart_items(cart_ids(s)) IN
        IF ~checkout_surface(cart_enabled, checkout_enabled)
        THEN Finish(s, "NotFound")
        ELSE IF items = <<>>
        THEN Finish(s, "CartEmpty")
        ELSE IF \E k \in 1..Len(items) : listings[items[k]].status # "ACTIVE"
        THEN Finish(s, "RefreshCart")
        ELSE Finish(s, "CheckoutPage")
    /\ UNCHANGED <<initvars, flagvars, hist, db, auto_listing, auto_purchase, lock, session_user, cart, now>>

checkout(s) ==
    \E cart_enabled, checkout_enabled \in BOOLEAN :
        CheckoutWith(s, cart_enabled, checkout_enabled)

\* ---------------------------------------------------------------- seller actions
\* (mutant) the statements do not name the owner
owner_is_Anyone(row, user_id) == TRUE

\* the condition "user_id = %s" of lines 490, 541, 561 and 574
owner_is(row, user_id) == row.user_id = user_id

\* lines 486-495: the row with this id owned by the session's user, NoRow for 404
\* (a plain SELECT: no lock is taken)
get_listing_owned(s, listing_id) ==
    IF listings[listing_id] # NoRow /\ owner_is(listings[listing_id], session_user[s])
    THEN listings[listing_id]
    ELSE NoRow

\* the rows an UPDATE / DELETE ... WHERE id = %s AND user_id = %s matches
Matches(listing_id, user_id) ==
    listings[listing_id] # NoRow /\ owner_is(listings[listing_id], user_id)

\* lines 407-471: the form is valid or not; a valid one inserts an ACTIVE row
new_listing_post(s) ==
    /\ pc[s] = "idle"
    /\ \E valid \in BOOLEAN, price_cents \in Prices :
        IF session_user[s] = 0
        THEN Finish(s, "LoginRequired") /\ UNCHANGED <<listings, auto_listing>>
        ELSE IF ~valid
        THEN Finish(s, "Invalid") /\ UNCHANGED <<listings, auto_listing>>
        ELSE /\ auto_listing <= MaxListings
             /\ listings' = [listings EXCEPT ![auto_listing] =
                    [user_id |-> session_user[s], price_cents |-> price_cents,
                     status |-> "ACTIVE", updated_at |-> now]]
             /\ auto_listing' = auto_listing + 1
             /\ Finish(s, "Posted")
    /\ UNCHANGED <<initvars, flagvars, hist, purchases, purchase_items, auto_purchase, lock, session_user, cart,
                   now>>

\* the first half of a seller handler: login_required and _get_listing_owned_or_404
SellerRead(s, listing_id, next_pc, fields) ==
    IF session_user[s] = 0
    THEN Finish(s, "LoginRequired")
    ELSE IF get_listing_owned(s, listing_id) = NoRow
    THEN Finish(s, "NotFound")
    ELSE /\ pc' = [pc EXCEPT ![s] = next_pc]
         /\ req' = [req EXCEPT ![s] = fields]
         /\ UNCHANGED result

\* lines 550-554
mark_sold_read(s) ==
    /\ pc[s] = "idle"
    /\ \E listing_id \in ListingIds :
        IF session_user[s] # 0 /\ get_listing_owned(s, listing_id).status = "SOLD"
        THEN Finish(s, "AlreadyMarked")
        ELSE SellerRead(s, listing_id, "mark_sold_update",
                 [NoReq EXCEPT !.listing_id = listing_id,
                               !.user_id = session_user[s]])
    /\ UNCHANGED <<initvars, flagvars, hist, db, auto_listing, auto_purchase, lock, session_user, cart, now>>

\* the row as mark_sold's UPDATE leaves it
MarkSoldRow(row, at) == [row EXCEPT !.status = "SOLD", !.updated_at = at]

\* lines 556-563: the UPDATE waits for the row lock, then rewrites the row; commit
mark_sold_update(s) ==
    /\ pc[s] = "mark_sold_update"
    /\ RowFree(req[s].listing_id, s)
    /\ listings' =
         IF Matches(req[s].listing_id, req[s].user_id)
         THEN [listings EXCEPT ![req[s].listing_id] = MarkSoldRow(@, now)]
         ELSE listings
    /\ Finish(s, "MarkedSold")
    /\ UNCHANGED <<initvars, flagvars, hist, purchases, purchase_items, auto_listing, auto_purchase, lock,
                   session_user, cart, now>>

\* lines 507-532
edit_listing_read(s) ==
    /\ pc[s] = "idle"
    /\ \E listing_id \in ListingIds, valid \in BOOLEAN, price_cents \in Prices :
        IF session_user[s] # 0 /\ get_listing_owned(s, listing_id) # NoRow /\ ~valid
        THEN Finish(s, "Invalid")
        ELSE SellerRead(s, listing_id, "edit_listing_update",
                 [NoReq EXCEPT !.listing_id = listing_id,
                               !.user_id = session_user[s],
                               !.price_cents = price_cents])
    /\ UNCHANGED <<initvars, flagvars, hist, db, auto_listing, auto_purchase, lock, session_user, cart, now>>

\* (mutant) the edit relists the row
EditRow_Relist(row, price_cents, at) ==
    [row EXCEPT !.price_cents = price_cents, !.updated_at = at, !.status = "ACTIVE"]

\* the row as edit_listing_post's UPDATE leaves it
EditRow(row, price_cents, at) == [row EXCEPT !.price_cents = price_cents, !.updated_at = at]

\* lines 534-545
edit_listing_update(s) ==
    /\ pc[s] = "edit_listing_update"
    /\ RowFree(req[s].listing_id, s)
    /\ listings' =
         IF Matches(req[s].listing_id, req[s].user_id)
         THEN [listings EXCEPT ![req[s].listing_id] = EditRow(@, req[s].price_cents, now)]
         ELSE listings
    /\ Finish(s, "Updated")
    /\ UNCHANGED <<initvars, flagvars, hist, purchases, purchase_items, auto_listing, auto_purchase, lock,
                   session_user, cart, now>>

\* lines 568-569
delete_listing_read(s) ==
    /\ pc[s] = "idle"
    /\ \E listing_id \in ListingIds :
        SellerRead(s, listing_id, "delete_listing_exec",
            [NoReq EXCEPT !.listing_id = listing_id,
                          !.user_id = session_user[s]])
    /\ UNCHANGED <<initvars, flagvars, hist, db, auto_listing, auto_purchase, lock, session_user, cart, now>>

\* lines 571-576: the DELETE waits for the row lock; fk_pi_listing (ON DELETE
\* RESTRICT, line 148-149) makes it fail for a row that purchase_items references
delete_listing_exec(s) ==
    /\ pc[s] = "delete_listing_exec"
    /\ RowFree(req[s].listing_id, s)
    /\ IF Matches(req[s].listing_id, req[s].user_id) /\ Referenced(req[s].listing_id)
       THEN Finish(s, "Error") /\ UNCHANGED listings
       ELSE /\ listings' =
                 IF Matches(req[s].listing_id, req[s].user_id)
                 THEN [listings EXCEPT ![req[s].listing_id] = NoRow]
                 ELSE listings
            /\ Finish(s, "Deleted")
    /\ UNCHANGED <<initvars, flagvars, hist, purchases, purchase_items, auto_listing, auto_purchase, lock,
                   session_user, cart, now>>

\* utc_now_iso (lines 220-221) reads a clock that advances by itself
Tick ==
    /\ now < MaxClock
    /\ now' = now + 1
    /\ UNCHANGED <<initvars, flagvars, hist, db, auto_listing, auto_purchase, lock, session_user, cart, pc, req,
                   result>>

Seller(s) ==
    \/ new_listing_post(s)
    \/ mark_sold_read(s)
    \/ mark_sold_update(s)
    \/ edit_listing_read(s)
    \/ edit_listing_update(s)
    \/ delete_listing_read(s)
    \/ delete_listing_exec(s)

\* The shop: one shopper and the sellers, every handler, and the clock.
Shoppers == {Min(Buyers)}

Next ==
    \/ \E s \in Shoppers : add_to_cart(s) \/ Pay(s)
    \/ \E s \in Sellers : Seller(s)
    \/ \E s \in Shoppers \cup Sellers : close_db(s)
    \/ Tick

Spec == Init /\ [][Next]_vars

\* Concurrent checkouts: every buyer session submits /pay once, from any tables and
\* carts the shop can have produced (listings ACTIVE, sold by their owner or
\* deleted; carts without duplicates, as cart_add builds them).
ListingRows ==
    {NoRow} \cup
    {[user_id |-> 1, price_cents |-> p, status |-> st, updated_at |-> 0] :
        p \in Prices, st \in {"ACTIVE", "SOLD"}}

RECURSIVE SeqsUpTo(_, _)
SeqsUpTo(S, n) ==
    IF n = 0 THEN {<<>>}
    ELSE LET shorter == SeqsUpTo(S, n - 1) IN
         shorter \cup {Append(q, x) : q \in shorter, x \in S}

NoDuplicates(ids) == \A j, k \in 1..Len(ids) : ids[j] = ids[k] => j = k

Carts == {ids \in SeqsUpTo(ListingIds, MaxListings) : NoDuplicates(ids)}

InitTables(carts) ==
    /\ listings \in [ListingIds -> ListingRows]
    /\ purchases = {}
    /\ purchase_items = <<>>
    /\ auto_listing = MaxListings + 1
    /\ auto_purchase = 1
    /\ lock = [i \in ListingIds |-> 0]
    /\ session_user = [s \in Sessions |-> IF s \in Sellers THEN 1 ELSE 0]
    /\ cart \in [Sessions -> carts]
    /\ \A s \in Sellers : cart[s] = <<>>
    /\ pc = [s \in Sessions |-> "idle"]
    /\ req = [s \in Sessions |-> NoReq]
    /\ result = [s \in Sessions |-> "none"]
    /\ now = 0
    /\ hist = [listings |-> listings, cart |-> cart, met |-> {}]
    /\ Serving
    /\ Inited

InitPay == InitTables(Carts)

NextPay == \E s \in Buyers : Pay(s)

SpecPay == InitPay /\ [][NextPay]_vars

\* The same, for any id sequence in the session cookie (pay reads session["cart"]
\* as it is, lines 582-583 and 681).
InitRaw == InitTables(SeqsUpTo(ListingIds, MaxListings))

SpecRaw == InitRaw /\ [][NextPay]_vars

\* The checkout surface of one session: /checkout and /pay, from any tables and
\* any cart.
InitCart == InitTables(Carts) /\ \A s \in Sessions \ Shoppers : cart[s] = <<>>

NextCheckout == \E s \in Shoppers : checkout(s) \/ Pay(s) \/ close_db(s)

SpecCheckout == InitCart /\ [][NextCheckout]_vars

\* One browser session: every request that reads or writes the session cookie.
NextCart ==
    \E s \in Shoppers :
        \/ add_to_cart(s)
        \/ view_cart(s)
        \/ checkout(s)
        \/ login_post(s)
        \/ logout(s)
        \/ Pay(s)
        \/ close_db(s)

SpecCart == InitCart /\ [][NextCart]_vars

\* The process from its start: the import of app.py, then flag() calls of requests,
\* for either state of UNLEASH_URL.  The shop's tables stay empty here.
InitFlags ==
    /\ listings = [i \in ListingIds |-> NoRow]
    /\ purchases = {}
    /\ purchase_items = <<>>
    /\ auto_listing = 1
    /\ auto_purchase = 1
    /\ lock = [i \in ListingIds |-> 0]
    /\ session_user = [s \in Sessions |-> 0]
    /\ cart = [s \in Sessions |-> <<>>]
    /\ pc = [s \in Sessions |-> "idle"]
    /\ req = [s \in Sessions |-> NoReq]
    /\ result = [s \in Sessions |-> "none"]
    /\ now = 0
    /\ hist = [listings |-> listings, cart |-> cart, met |-> {}]
    /\ unleash_url \in BOOLEAN
    /\ unleash = "None"
    /\ app = "importing"
    /\ flag_call = NoCall
    /\ db_inited = FALSE
    /\ init_count = 0

NextFlags == Startup \/ FlagCall

SpecFlags == InitFlags /\ [][NextFlags]_vars

\* Checkouts racing the owner: every buyer session submits /pay once while the
\* seller sessions each run one mark_sold, edit_listing_post or delete_listing.
\* Scheduling: a request that can take its next step takes it (the server runs
\* every request to its end); a statement waiting for a row lock resumes when the
\* lock is free.
SellerUpdate(s) == mark_sold_update(s) \/ edit_listing_update(s) \/ delete_listing_exec(s)

PayStep(s) ==
    \/ PayLock(s)
    \/ PayValidate(s)
    \/ PayCharge(s)
    \/ PayInsertPurchase(s)
    \/ PayInsertItems(s)
    \/ PayUpdate(s)
    \/ PayCommit(s)

NextRace ==
    \/ \E s \in Buyers : Pay(s)
    \/ \E s \in Sellers :
        mark_sold_read(s) \/ edit_listing_read(s) \/ delete_listing_read(s) \/ SellerUpdate(s)

SpecRace ==
    /\ InitPay
    /\ [][NextRace]_vars
    /\ \A s \in Buyers : WF_vars(PayStep(s))
    /\ \A s \in Sellers : WF_vars(SellerUpdate(s))

\* The first requests of a process: the server runs each request in its own
\* thread, and every request passes through before_request.
InitFirst ==
    /\ listings = [i \in ListingIds |-> NoRow]
    /\ purchases = {}
    /\ purchase_items = <<>>
    /\ auto_listing = 1
    /\ auto_purchase = 1
    /\ lock = [i \in ListingIds |-> 0]
    /\ session_user = [s \in Sessions |-> 0]
    /\ cart = [s \in Sessions |-> <<>>]
    /\ pc = [s \in Sessions |-> "idle"]
    /\ req = [s \in Sessions |-> NoReq]
    /\ result = [s \in Sessions |-> "none"]
    /\ now = 0
    /\ hist = [listings |-> listings, cart |-> cart, met |-> {}]
    /\ Serving
    /\ db_inited = FALSE
    /\ init_count = 0

NextFirst ==
    \E s \in Sessions : ensure_db(s) \/ init_db(s) \/ route_handler(s) \/ close_db(s)

SpecFirst == InitFirst /\ [][NextFirst]_vars

\* One browser session shopping while the owner marks listings sold or deletes
\* them.
NextStale ==
    \/ NextCart
    \/ \E s \in Sellers :
        \/ mark_sold_read(s)
        \/ mark_sold_update(s)
        \/ delete_listing_read(s)
        \/ delete_listing_exec(s)
        \/ close_db(s)

SpecStale == InitCart /\ [][NextStale]_vars

\* Listings of several owners: a session that is logged out or logged in as any
\* user posts edits, mark-sold and delete requests for any listing.
OwnedRows ==
    {NoRow} \cup
    {[user_id |-> u, price_cents |-> p, status |-> st, updated_at |-> 0] :
        u \in Users, p \in Prices, st \in {"ACTIVE", "SOLD"}}

InitOwner ==
    /\ listings \in [ListingIds -> OwnedRows]
    /\ purchases = {}
    /\ purchase_items = <<>>
    /\ auto_listing = MaxListings + 1
    /\ auto_purchase = 1
    /\ lock = [i \in ListingIds |-> 0]
    /\ session_user \in [Sessions -> {0} \cup Users]
    /\ \A s \in Buyers : session_user[s] = 0
    /\ cart = [s \in Sessions |-> <<>>]
    /\ pc = [s \in Sessions |-> "idle"]
    /\ req = [s \in Sessions |-> NoReq]
    /\ result = [s \in Sessions |-> "none"]
    /\ now = 0
    /\ hist = [listings |-> listings, cart |-> cart, met |-> {}]
    /\ Serving
    /\ Inited

NextOwner ==
    \E s \in Sellers :
        \/ login_post(s)
        \/ logout(s)
        \/ mark_sold_read(s)
        \/ edit_listing_read(s)
        \/ delete_listing_read(s)
        \/ SellerUpdate(s)
        \/ close_db(s)

SpecOwner == InitOwner /\ [][NextOwner]_vars

\* ---------------------------------------------------------------- properties
Shares(s, t) == Range(hist.cart[s]) \cap Range(hist.cart[t]) # {}

PastValidation ==
    {"pay_charge", "pay_insert_purchase", "pay_insert_items", "pay_update", "pay_commit"}

Successful == {s \in Buyers : pc[s] = "done" /\ result[s] = "Success"}

RECURSIVE SumLen(_)
SumLen(S) ==
    IF S = {} THEN 0
    ELSE LET s == CHOOSE x \in S : TRUE IN Len(hist.cart[s]) + SumLen(S \ {s})

\* C1 as stated: of two pay executions whose carts share an item id, at most one
\* commits and the other ends with the item-unavailable outcome.
C1_OtherAlwaysUnavailable ==
    \A s, t \in Buyers :
        (/\ s # t /\ Shares(s, t) /\ {s, t} \in hist.met
         /\ pc[s] = "done" /\ pc[t] = "done" /\ result[s] = "Success")
            => result[t] = "ItemUnavailable"

\* C1 (amended): of two pay executions whose carts share an item id, at most one
\* commits a purchase.  Once one has committed, the other never gets past its
\* validation: it ends item-unavailable when it validates after that commit, and
\* can otherwise only have ended earlier as declined, failed or not-found.  The
\* tables hold exactly the rows of the committed executions, so the other wrote
\* nothing.
C1_NoDoubleSale ==
    /\ \A s, t \in Buyers :
        (s # t /\ Shares(s, t) /\ pc[s] = "done" /\ result[s] = "Success") =>
            /\ pc[t] \notin PastValidation
            /\ pc[t] = "done" =>
                 result[t] \in {"ItemUnavailable", "PaymentDeclined", "Error", "NotFound"}
    /\ Cardinality(purchases) = Cardinality(Successful)
    /\ Len(purchase_items) = SumLen(Successful)

C1_Witness ==
    \E s, t \in Buyers :
        /\ s # t /\ Shares(s, t) /\ {s, t} \in hist.met
        /\ pc[s] = "done" /\ result[s] = "Success"
        /\ pc[t] = "done" /\ result[t] = "ItemUnavailable"

\* the rows pay's commit adds for the id sequence ids
IsPurchaseOf(ids, new_purchases, new_items) ==
    /\ Cardinality(new_purchases) = 1
    /\ Len(new_items) = Len(ids)
    /\ \A k \in 1..Len(ids) :
        /\ new_items[k].listing_id = ids[k]
        /\ \E p \in new_purchases : new_items[k].purchase_id = p.id

\* C2: a step of pay either leaves listings, purchases and purchase_items as they
\* are, or is the commit: every cart item is SOLD, one purchases row and one
\* purchase_items row per cart item are added, and nothing else changes.
C2_Atomicity ==
    [][\A s \in Shoppers : Pay(s) =>
        \/ db' = db
        \/ /\ pc'[s] = "done" /\ result'[s] = "Success"
           /\ \A i \in ListingIds :
                IF i \in Range(cart[s])
                THEN listings[i].status = "ACTIVE" /\ listings'[i].status = "SOLD"
                ELSE listings'[i] = listings[i]
           /\ purchases \subseteq purchases'
           /\ Len(purchase_items') >= Len(purchase_items)
           /\ SubSeq(purchase_items', 1, Len(purchase_items)) = purchase_items
           /\ IsPurchaseOf(cart[s], purchases' \ purchases,
                  SubSeq(purchase_items', Len(purchase_items) + 1, Len(purchase_items')))
      ]_vars

C2_Witness ==
    \E s \in Shoppers :
        /\ pc[s] = "done" /\ result[s] = "Success"
        /\ Len(purchase_items) = MaxListings
        /\ Cardinality(purchases) = 1

\* C3: the step in which pay ends as declined leaves the tables and the cart as
\* they were, and every item of the cart is ACTIVE after it.
C3_DeclineLeavesNoTrace ==
    [][\A s \in Shoppers :
        (Pay(s) /\ pc'[s] = "done" /\ result'[s] = "PaymentDeclined") =>
            /\ db' = db
            /\ cart'[s] = cart[s]
            /\ cart[s] # <<>>
            /\ \A i \in Range(cart[s]) : listings'[i].status = "ACTIVE"
      ]_vars

C3_Witness ==
    \E s \in Shoppers :
        /\ pc[s] = "done" /\ result[s] = "PaymentDeclined"
        /\ Len(cart[s]) = MaxListings

ItemsOf(p) == SelectSeq(purchase_items, LAMBDA row : row.purchase_id = p.id)

RECURSIVE SumRows(_)
SumRows(rows) == IF rows = <<>> THEN 0 ELSE Head(rows).price_cents + SumRows(Tail(rows))

TotalsMatch == \A p \in purchases : p.total_amount_cents = SumRows(ItemsOf(p))

\* C4: every purchase's total is the sum of its purchase_items prices; the rows a
\* commit adds carry the price the listing has at that commit (the locked row);
\* and no later step changes a purchases or purchase_items row.
C4_PriceFreeze ==
    /\ []TotalsMatch
    /\ [][/\ purchases \subseteq purchases'
          /\ Len(purchase_items') >= Len(purchase_items)
          /\ \A k \in 1..Len(purchase_items') :
                IF k <= Len(purchase_items)
                THEN purchase_items'[k] = purchase_items[k]
                ELSE purchase_items'[k].price_cents =
                         listings[purchase_items'[k].listing_id].price_cents
         ]_vars

\* a seller's edit changed the price of a listing after its sale
C4_Witness ==
    \E k \in 1..Len(purchase_items) :
        listings[purchase_items[k].listing_id].price_cents # purchase_items[k].price_cents

\* C5: no step turns a SOLD listing ACTIVE.
C5_StatusOneWay ==
    [][\A i \in ListingIds :
        listings[i].status = "SOLD" => listings'[i].status # "ACTIVE"]_vars

\* a SOLD listing that its owner has edited since
C5_Witness ==
    \E i \in ListingIds, s \in Sellers :
        /\ listings[i].status = "SOLD"
        /\ pc[s] = "done" /\ result[s] = "Updated"
        /\ listings[i].updated_at = now /\ now > 0

\* C6: every listing id is referenced by at most one purchase_items row.
C6_OneRowPerListing ==
    \A j, k \in 1..Len(purchase_items) :
        purchase_items[j].listing_id = purchase_items[k].listing_id => j = k

\* a listing bought by one session and refused to another that had it in its cart
C6_Witness ==
    \E k \in 1..Len(purchase_items), t \in Buyers :
        /\ purchase_items[k].listing_id \in Range(cart[t])
        /\ pc[t] = "done" /\ result[t] = "ItemUnavailable"

\* C7 as stated: of mark_sold's UPDATE and pay's commit on the same listing only
\* the first writes the row; the other finds the listing SOLD and leaves the row,
\* updated_at included, as it is.
C7_SoldWrittenOnce ==
    [][((\E s \in Sellers : mark_sold_update(s)) \/ (\E s \in Shoppers : PayCommit(s)))
          => \A i \in ListingIds :
                listings[i].status = "SOLD" => listings'[i] = listings[i]]_vars

\* C8 as stated: a pay that passes the flag check ends cart-empty exactly when the
\* cart's id sequence is empty.
C8_CartEmptyIffNoIds ==
    [][\A s \in Shoppers :
        (PayBegin(s) /\ ~(pc'[s] = "done" /\ result'[s] = "NotFound"))
            => ((pc'[s] = "done" /\ result'[s] = "CartEmpty") <=> cart_ids(s) = <<>>)
      ]_vars

RECURSIVE SumListed(_)
SumListed(S) ==
    IF S = {} THEN 0
    ELSE LET i == CHOOSE x \in S : TRUE IN listings[i].price_cents + SumListed(S \ {i})

\* C9 as stated: an id that occurs more than once in the sequence pay is handed is
\* bought as one unit: one purchase_items row for it, its price counted once.
C9_DuplicateIsOneUnit ==
    \A p \in purchases :
        LET rows == ItemsOf(p)
            bought == {rows[k].listing_id : k \in 1..Len(rows)}
        IN  /\ Len(rows) = Cardinality(bought)
            /\ p.total_amount_cents = SumListed(bought)

\* ---------------------------------------------------------------- serial runs
\* pay run alone, from flag check to return, on the tables st for the id sequence
\* ids, along the path that ends with response r (late: the error came after the
\* INSERT into purchases); ok turns FALSE when no such path exists
SerialPay(st, ids, r, late) ==
    LET items == SelectSeq(ids, LAMBDA i : st.listings[i] # NoRow)
        by == [i \in Range(items) |->
                  [status |-> st.listings[i].status,
                   price_cents |-> st.listings[i].price_cents]]
        valid == items # <<>> /\ ~Unavailable(ids, by)
        no == [st EXCEPT !.ok = FALSE]
    IN  CASE r = "NotFound" -> st
          [] r = "CartEmpty" -> IF items = <<>> THEN st ELSE no
          [] r = "ItemUnavailable" ->
                IF items # <<>> /\ Unavailable(ids, by) THEN st ELSE no
          [] r = "PaymentDeclined" -> IF valid THEN st ELSE no
          [] r = "Error" ->
                IF items = <<>> \/ (late /\ ~valid) THEN no
                ELSE IF late THEN [st EXCEPT !.auto_purchase = @ + 1]
                ELSE st
          [] r = "Success" ->
                IF ~valid THEN no
                ELSE [st EXCEPT
                        !.listings = SoldRows(@, Range(ids), now),
                        !.purchases = @ \cup
                            {[id |-> st.auto_purchase,
                              total_amount_cents |-> SumPrices(ids, by)]},
                        !.purchase_items = @ \o PayItemRows(ids, by, st.auto_purchase),
                        !.auto_purchase = @ + 1]
          [] OTHER -> no

RECURSIVE SerialRun(_, _, _)
SerialRun(st, order, late) ==
    IF order = <<>> THEN st
    ELSE SerialRun(
             SerialPay(st, hist.cart[Head(order)], result[Head(order)], late[Head(order)]),
             Tail(order), late)

Orders(S) ==
    {q \in SeqsUpTo(S, Cardinality(S)) : Len(q) = Cardinality(S) /\ NoDuplicates(q)}

Count(rows, row) == Cardinality({k \in 1..Len(rows) : rows[k] = row})

SameRows(a, b) ==
    /\ Len(a) = Len(b)
    /\ \A k \in 1..Len(a) : Count(a, a[k]) = Count(b, a[k])

Returned == {s \in Buyers : pc[s] = "done"}

\* C10: whenever no pay is in flight, the tables, the id counter, the carts and the
\* responses are those of running the returned calls one at a time in some order
\* (purchase_items compared as a collection of rows).
C10_SerialEquivalence ==
    (\A s \in Buyers : pc[s] \in {"idle", "done"}) =>
        \E order \in Orders(Returned), late \in [Returned -> BOOLEAN] :
            LET fin == SerialRun(
                           [listings |-> hist.listings, purchases |-> {},
                            purchase_items |-> <<>>, auto_purchase |-> 1, ok |-> TRUE],
                           order, late)
            IN  /\ fin.ok
                /\ fin.listings = listings
                /\ fin.purchases = purchases
                /\ SameRows(fin.purchase_items, purchase_items)
                /\ fin.auto_purchase = auto_purchase
                /\ \A s \in Returned :
                     cart[s] = IF result[s] = "Success" THEN <<>> ELSE hist.cart[s]

\* every call has returned, two of them overlapped in time on a shared item, and
\* one of the two bought it
C10_Witness ==
    /\ \A s \in Buyers : pc[s] = "done"
    /\ \E s, t \in Buyers :
        /\ s # t /\ Shares(s, t) /\ {s, t} \in hist.met
        /\ hist.cart[s] # hist.cart[t]
        /\ result[s] = "Success"

\* C11: a checkout or pay whose cart-enabled or checkout-enabled flag resolves to
\* false returns not-found in its first step, and that step takes no lock, hands out
\* no purchase id, and leaves the three tables and the cart as they were.
C11_FlagsOffNotFound ==
    [][\A s \in Shoppers : \A cart_enabled, checkout_enabled \in BOOLEAN :
        (/\ ~(cart_enabled /\ checkout_enabled)
         /\ \/ PayBeginWith(s, cart_enabled, checkout_enabled)
            \/ CheckoutWith(s, cart_enabled, checkout_enabled))
            => /\ pc'[s] = "done" /\ result'[s] = "NotFound"
               /\ db' = db /\ lock' = lock /\ cart' = cart
               /\ auto_purchase' = auto_purchase
      ]_vars

\* not-found for a cart that is ready to be bought
C11_Witness ==
    \E s \in Shoppers :
        /\ pc[s] = "done" /\ result[s] = "NotFound"
        /\ Len(cart[s]) = MaxListings
        /\ \A i \in Range(cart[s]) : listings[i].status = "ACTIVE"

IsPrefix(a, b) == Len(a) <= Len(b) /\ SubSeq(b, 1, Len(a)) = a

\* C12: no cart ever holds an id twice, and an add_to_cart that reaches cart_add
\* keeps the old cart as a prefix of the new one and makes the new cart's members
\* the old members and the added id: for an id already in the cart the sequence is
\* as it was, otherwise the id is appended.
C12_CartAddIdempotent ==
    /\ [](\A s \in Shoppers : NoDuplicates(cart[s]))
    /\ [][\A s \in Shoppers : \A i \in ListingIds :
            (AddToCartWith(s, i, TRUE) /\ result'[s] = "Added") =>
                /\ IsPrefix(cart[s], cart'[s])
                /\ Range(cart'[s]) = Range(cart[s]) \cup {i}
                /\ (i \in Range(cart[s]) => cart'[s] = cart[s])
         ]_vars

\* an add to a full cart, which is the cart the session started with
C12_Witness ==
    \E s \in Shoppers :
        /\ pc[s] = "done" /\ result[s] = "Added"
        /\ Len(cart[s]) = MaxListings
        /\ cart[s] = hist.cart[s]
        /\ session_user[s] = 0

\* C13 as stated: a step that removes an id from a session's cart is the return of
\* a successful pay.
C13_CartEmptiedOnlyByCheckout ==
    [][\A s \in Shoppers :
        ~(Range(cart[s]) \subseteq Range(cart'[s]))
            => (pc'[s] = "done" /\ result'[s] = "Success")]_vars

\* C14 as stated: no step changes the price of a listing that is SOLD (the text
\* columns are written by the same UPDATE as price_cents).
C14_NoEditAfterSold ==
    [][\A i \in ListingIds :
        (listings[i].status = "SOLD" /\ listings'[i] # NoRow)
            => listings'[i].price_cents = listings[i].price_cents]_vars

\* C15: every purchase_items row references a listing that exists, and a
\* delete_listing whose DELETE reaches a referenced listing fails and leaves the
\* three tables as they were.
C15_ReferencedNeverDeleted ==
    /\ [](\A k \in 1..Len(purchase_items) :
            listings[purchase_items[k].listing_id] # NoRow)
    /\ [][\A s \in Sellers :
            (delete_listing_exec(s) /\ Referenced(req[s].listing_id))
                => (db' = db /\ result'[s] = "Error")]_vars

\* the owner's delete of a listing that a pay has bought failed, and the listing
\* is still there
C15_Witness ==
    \E s \in Sellers, t \in Shoppers, k \in 1..Len(purchase_items) :
        /\ pc[s] = "done" /\ result[s] = "Error"
        /\ pc[t] = "done" /\ result[t] = "Success"
        /\ listings[purchase_items[k].listing_id].status = "SOLD"

\* the last is_enabled attempt that flag() made raised
FlagFailed(tries) ==
    \/ tries[1] = "Error"
    \/ tries[1] = "TypeError" /\ tries[2] = "Error"
    \/ tries[1] = "TypeError" /\ tries[2] = "TypeError" /\ tries[3] \in {"TypeError", "Error"}

\* C16 as stated: no call of flag() lets an exception out, and a call whose
\* is_enabled attempts ended with an exception returned bool(default).
C16_FlagFailsOpen ==
    flag_call.ret # "none" =>
        /\ flag_call.ret # "Raise"
        /\ FlagFailed(flag_call.tries) => flag_call.ret = BoolStr(flag_call.default)

\* C20 as stated: the startup call of init_unleash never ends the process.
C20_StartupSurvives == app # "crashed"

\* C17: while pay is at the payment authorizer, every row of its cart is locked by
\* it and ACTIVE, and it has written nothing; the tables change only in the commit
\* step, the purchase id is taken only after the authorizer returned, the commit
\* step is the return, and the cart changes only in that step.
C17_ProtocolOrder ==
    /\ [](\A s \in Shoppers :
            /\ pc[s] = "pay_charge" =>
                 /\ req[s].ids # <<>>
                 /\ \A i \in Range(req[s].ids) :
                        lock[i] = s /\ listings[i].status = "ACTIVE"
            /\ pc[s] \in {"pay_lock", "pay_charge"} =>
                 req[s].purchase_id = 0 /\ req[s].items = <<>> /\ req[s].sold = {})
    /\ [][\A s \in Shoppers : Pay(s) =>
            /\ auto_purchase' # auto_purchase => pc[s] = "pay_insert_purchase"
            /\ pc'[s] = "pay_insert_purchase" => pc[s] = "pay_charge"
            /\ db' # db => pc[s] = "pay_commit"
            /\ pc[s] = "pay_commit" => pc'[s] = "done"
            /\ cart'[s] # cart[s] => (pc[s] = "pay_commit" /\ result'[s] = "Success")
         ]_vars

\* pay is at the authorizer with a full cart while the owner's mark_sold waits
\* for one of its rows
C17_Witness ==
    \E s \in Shoppers, t \in Sellers :
        /\ pc[s] = "pay_charge"
        /\ Len(req[s].ids) = MaxListings
        /\ pc[t] = "mark_sold_update"
        /\ req[t].listing_id \in Range(req[s].ids)

\* session s waits for a row lock that session t holds
Waits(s, t) ==
    /\ s # t
    /\ \/ pc[s] = "pay_lock" /\ PayPending(s) # {} /\ lock[NextLocked(s)] = t
       \/ /\ pc[s] \in {"mark_sold_update", "edit_listing_update", "delete_listing_exec"}
          /\ lock[req[s].listing_id] = t

NoWaitCycle ==
    \A S \in SUBSET Sessions :
        S # {} => \E s \in S : \A t \in S : ~Waits(s, t)

\* C18: no set of sessions ever waits in a cycle for each other's row locks, and
\* under fair scheduling every pay that started its transaction returns.
C18_DeadlockFree ==
    /\ []NoWaitCycle
    /\ \A s \in Buyers : (pc[s] \in PayTryPcs) ~> (pc[s] = "done")

\* a pay holds one row of its cart and waits for the next, which another pay holds
C18_Witness ==
    \E s, t \in Buyers :
        /\ Waits(s, t)
        /\ \E i \in ListingIds : lock[i] = s
        /\ pc[t] \in PastValidation

C21_InitOnce ==
    /\ \A s \in Sessions : pc[s] = "handler" => (db_inited /\ init_count >= 1)
    /\ init_count <= 1

\* listing i was created and is no longer for sale: SOLD or deleted
Stale(i) == i < auto_listing /\ listings[i].status # "ACTIVE"

\* C22: a step changes a cart only by appending to it or by emptying it; every id
\* of a cart has been created; an id of a cart that is SOLD or deleted stays so;
\* and while a session's cart holds such an id, no step of its pay changes the
\* tables or returns success.
C22_StaleIdBlocksCart ==
    /\ [](\A s \in Shoppers : \A i \in Range(cart[s]) : i < auto_listing)
    /\ [][\A s \in Shoppers :
            /\ cart'[s] = <<>> \/ IsPrefix(cart[s], cart'[s])
            /\ \A i \in Range(cart[s]) :
                Stale(i) =>
                    /\ listings'[i].status # "ACTIVE"
                    /\ Pay(s) => /\ db' = db
                                 /\ ~(pc'[s] = "done" /\ result'[s] = "Success")
         ]_vars

\* a pay was refused for a cart that holds a deleted listing next to one that is
\* still for sale
C22_Witness ==
    \E s \in Shoppers, i, j \in ListingIds :
        /\ pc[s] = "done" /\ result[s] = "ItemUnavailable"
        /\ i \in Range(cart[s]) /\ listings[i].status = "ACTIVE"
        /\ j \in Range(cart[s]) /\ listings[j] = NoRow
        /\ hist.listings[j].status = "ACTIVE"

\* C23: an add_to_cart changes the cart only when its cart flag is on and the
\* listing exists and is ACTIVE at that moment; for an id without a row it answers
\* not-found and, with the flag on, for a SOLD id "already sold", both with the
\* cart as it was.
C23_AddOnlyActive ==
    [][\A s \in Shoppers : \A i \in ListingIds : \A cart_enabled \in BOOLEAN :
        AddToCartWith(s, i, cart_enabled) =>
            /\ cart'[s] # cart[s] => (cart_enabled /\ listings[i].status = "ACTIVE")
            /\ result'[s] = "Added" => (cart_enabled /\ listings[i].status = "ACTIVE")
            /\ listings[i] = NoRow => (result'[s] = "NotFound" /\ cart' = cart)
            /\ (cart_enabled /\ listings[i].status = "SOLD")
                    => (result'[s] = "AlreadySold" /\ cart' = cart)
      ]_vars

\* an id that this session added while it was for sale is in the cart and has
\* been sold by its owner since; a later add of it was refused
C23_Witness ==
    \E s \in Shoppers, i \in ListingIds :
        /\ i \in Range(cart[s]) /\ i \notin Range(hist.cart[s])
        /\ listings[i].status = "SOLD"
        /\ pc[s] = "done" /\ result[s] = "AlreadySold"

\* C24: a step that changes a listing row is the UPDATE or DELETE of a session
\* that is logged in as the owner of that listing and asked for that listing.
C24_OwnerOnly ==
    [][\A i \in ListingIds :
        listings'[i] # listings[i] =>
            \E s \in Sellers :
                /\ SellerUpdate(s)
                /\ req[s].listing_id = i
                /\ session_user[s] # 0
                /\ session_user[s] = listings[i].user_id
      ]_vars

\* a logged-in user's edit of another user's listing was answered not-found, and
\* the listings are as they were at the start
C24_Witness ==
    \E s \in Sellers, i \in ListingIds :
        /\ pc[s] = "done" /\ result[s] = "NotFound"
        /\ session_user[s] # 0
        /\ listings[i] # NoRow /\ listings[i].user_id # session_user[s]
        /\ \A j \in ListingIds :
             listings[j] # NoRow /\ listings[j].user_id # session_user[s]
        /\ listings = hist.listings
====
